---------------------------- MODULE Spec2Model ----------------------------
(***************************************************************************)
(* Association analysis of src/main.py: basket construction (Part 3), the  *)
(* one-hot TransactionEncoder, the frequent-itemset search of              *)
(* apriori(df_onehot, min_support, use_colnames=True) and the rule         *)
(* generation of association_rules(frequent_itemsets, metric,              *)
(* min_threshold) (Part 4).                                                *)
(*                                                                         *)
(* main.py calls TransactionEncoder, apriori and association_rules of the  *)
(* mlxtend package (imports at lines 3-4).  The operators that model them  *)
(* follow what those library functions execute when called as main.py      *)
(* calls them (dense boolean frame, low_memory=False, max_len=None,        *)
(* support_only=False).                                                    *)
(*                                                                         *)
(* Numbers.  A support is the float count / n.  It is kept here as the     *)
(* pair <<count, n>>, and every quotient of supports as a pair             *)
(* <<numerator, denominator>>; comparisons cross-multiply.  Rounding of    *)
(* float64 quotients is not modelled.                                      *)
(*                                                                         *)
(* Two specifications:                                                     *)
(*   Spec     lines 107-135 from an arbitrary list `transactions`, with    *)
(*            min_support, metric and min_threshold drawn from small sets  *)
(*            that contain the values main.py passes (0.05, "lift", 1.2);  *)
(*   SpecBaskets  lines 84-121 from the rows of df_assoc: the baskets, the *)
(*            sample print and the encoder, up to the call of apriori.     *)
(* FairSpec is Spec with weak fairness of the next-state relation (a       *)
(* sequential script keeps running until it ends or raises).               *)
(***************************************************************************)
EXTENDS Integers, Sequences, FiniteSets, TLC

VARIABLES
    rows,               \* df_assoc: the rows iterated at line 86
    index,              \* number of rows already turned into baskets
    transactions,       \* line 84: list of baskets (lists of labels)
    pc,                 \* position in the script
    err,                \* the exception that ended the run, or "none"
    columns_,           \* te.columns_: sorted list of distinct labels
    te_ary,             \* te_ary / df_onehot: boolean matrix rows x columns
    min_support,        \* apriori's min_support, <<num, den>>
    itemset_dict,       \* apriori: level -> set of combinations (tuples of column numbers)
    support_dict,       \* apriori: level -> [combination -> support]
    max_itemset,        \* apriori: the last level with a frequent combination
    counted,            \* history: level -> combinations whose support was counted
    frequent_itemsets,  \* line 128: set of [itemsets, support]
    metric,             \* association_rules' metric
    min_threshold,      \* association_rules' min_threshold, <<num, den>>
    rules               \* line 135: set of rule records

vars == <<rows, index, transactions, pc, err, columns_, te_ary, min_support,
          itemset_dict, support_dict, max_itemset, counted, frequent_itemsets,
          metric, min_threshold, rules>>

---------------------------------------------------------------------------
(* Bounds of the model *)

MaxTrans == 5
MaxRows == 2

---------------------------------------------------------------------------
(* Labels and their order *)

\* Python's str order (code points) on the labels used by the model.
LabelOrder ==
    <<" ", "1_Baths", "1_Beds", "A", "B", "C", "CA", "Gym", "Pool",
      "Rent_High", "Rent_Low", "Size_Small">>

Rank(l) == CHOOSE i \in 1..Len(LabelOrder) : LabelOrder[i] = l

RECURSIVE sorted(_)
\* sorted(unique_items): the labels of S in ascending str order.
sorted(S) ==
    IF S = {} THEN <<>>
    ELSE LET m == CHOOSE x \in S : \A y \in S : Rank(x) <= Rank(y)
         IN  <<m>> \o sorted(S \ {m})

Range(s) == {s[i] : i \in 1..Len(s)}

---------------------------------------------------------------------------
(* Rationals as pairs <<numerator, denominator>>, denominator > 0 *)

RGeq(x, y) == x[1] * y[2] >= y[1] * x[2]
REq(x, y) == x[1] * y[2] = y[1] * x[2]
RDiv(x, y) == <<x[1] * y[2], x[2] * y[1]>>

---------------------------------------------------------------------------
(* TransactionEncoder *)

\* fit: unique_items is the set of every item of every transaction;
\* columns_ = sorted(unique_items).
fit_MutLastOnly(X) == sorted(IF Len(X) = 0 THEN {} ELSE Range(X[Len(X)]))

fit(X) == sorted(UNION {Range(X[r]) : r \in 1..Len(X)})

\* transform: array[row_idx, columns_mapping_[item]] = True for each item of
\* the transaction that has a column; every other cell stays False.
transform(X, cols) ==
    [r \in 1..Len(X) |->
        [c \in 1..Len(cols) |-> \E j \in 1..Len(X[r]) : X[r][j] = cols[c]]]

---------------------------------------------------------------------------
(* apriori *)

\* _support(np.all(X[:, combin], axis=2), rows_count): the number of rows
\* with True in every column of the combination, over the number of rows.
Support_MutAny(X, combo) ==
    <<Cardinality({r \in 1..Len(X) : \E j \in 1..Len(combo) : X[r][combo[j]]}),
      Len(X)>>

Support(X, combo) ==
    <<Cardinality({r \in 1..Len(X) : \A j \in 1..Len(combo) : X[r][combo[j]]}),
      Len(X)>>

\* support >= min_support
Mask_MutStrict(sup, ms) == ~RGeq(ms, sup)

Mask(sup, ms) == RGeq(sup, ms)

\* Level 1: ary_col_idx[support >= min_support].reshape(-1, 1)
Level1(X, ncols, ms) == {<<c>> : c \in {d \in 1..ncols : Mask(Support(X, <<d>>), ms)}}

\* generate_new_combinations: every combination of the previous level,
\* extended by every item that occurs in the previous level and is greater
\* than the combination's last (greatest) item.
generate_new_combinations_MutLess(old_combinations) ==
    LET items_types_in_previous_step == UNION {Range(c) : c \in old_combinations}
    IN  UNION {{Append(c, item) :
                    item \in {i \in items_types_in_previous_step : i < c[Len(c)]}}
                 : c \in old_combinations}

generate_new_combinations_MutGeq(old_combinations) ==
    LET items_types_in_previous_step == UNION {Range(c) : c \in old_combinations}
    IN  UNION {{Append(c, item) :
                    item \in {i \in items_types_in_previous_step : i >= c[Len(c)]}}
                 : c \in old_combinations}

generate_new_combinations(old_combinations) ==
    LET items_types_in_previous_step == UNION {Range(c) : c \in old_combinations}
    IN  UNION {{Append(c, item) :
                    item \in {i \in items_types_in_previous_step : i > c[Len(c)]}}
                 : c \in old_combinations}

\* combin[_mask]: the candidates of the level whose support passes.
NextLevel(X, ms, old_combinations) ==
    {c \in generate_new_combinations(old_combinations) : Mask(Support(X, c), ms)}

\* res_df with use_colnames=True: one row per kept combination of every
\* level, its support and the frozenset of its column names.
ResultFrame_MutDropLevel1(idict, sdict, cols) ==
    UNION {{[support |-> sdict[k][c], itemsets |-> {cols[c[j]] : j \in 1..Len(c)}]
              : c \in idict[k]} : k \in DOMAIN idict \ {1}}

ResultFrame(idict, sdict, cols) ==
    UNION {{[support |-> sdict[k][c], itemsets |-> {cols[c[j]] : j \in 1..Len(c)}]
              : c \in idict[k]} : k \in DOMAIN idict}

RECURSIVE LaterLevels(_, _, _)
\* The while loop run to its break: the combinations kept at the levels
\* after old_combinations.
LaterLevels(X, ms, old_combinations) ==
    LET kept == NextLevel(X, ms, old_combinations)
    IN  IF kept = {} THEN {} ELSE kept \cup LaterLevels(X, ms, kept)

\* The itemsets (as sets of column names) of apriori(df, min_support=ms).
AprioriItemsets(X, cols, ms) ==
    LET l1 == Level1(X, Len(cols), ms)
    IN  {{cols[c[j]] : j \in 1..Len(c)} : c \in l1 \cup LaterLevels(X, ms, l1)}

---------------------------------------------------------------------------
(* association_rules *)

Metrics == {"support", "confidence", "lift"}

\* metric_dict: support = sAC, confidence = sAC / sA, lift = confidence / sC
Score_MutLiftByAntecedent(m, sAC, sA, sC) ==
    CASE m = "support" -> sAC
      [] m = "confidence" -> RDiv(sAC, sA)
      [] m = "lift" -> RDiv(RDiv(sAC, sA), sA)

Score(m, sAC, sA, sC) ==
    CASE m = "support" -> sAC
      [] m = "confidence" -> RDiv(sAC, sA)
      [] m = "lift" -> RDiv(RDiv(sAC, sA), sC)

\* for idx in range(len(k) - 1, 0, -1): for c in combinations(k, r=idx):
\* the antecedents of the frequent itemset k.
Antecedents_MutSkipSingles(k) ==
    {a \in SUBSET k : \E idx \in 2..(Cardinality(k) - 1) : Cardinality(a) = idx}

Antecedents(k) ==
    {a \in SUBSET k : \E idx \in 1..(Cardinality(k) - 1) : Cardinality(a) = idx}

\* frequent_items_dict: frozenset -> support
frequent_items_dict(df) ==
    [k \in {r.itemsets : r \in df} |-> (CHOOSE r \in df : r.itemsets = k).support]

\* The (antecedent, consequent) pairs the loops visit.
Splits(df) ==
    UNION {{<<a, r.itemsets \ a>> : a \in Antecedents(r.itemsets)} : r \in df}

\* A split whose antecedent or consequent has no entry in
\* frequent_items_dict raises KeyError.
MissingSupport(df) ==
    LET keys == DOMAIN frequent_items_dict(df)
    IN  \E s \in Splits(df) : s[1] \notin keys \/ s[2] \notin keys

\* score >= min_threshold
Keep_MutInverted(score, thr) == RGeq(thr, score)

Keep(score, thr) == RGeq(score, thr)

\* The rows of the returned frame, with the columns main.py prints.
RuleRows(df, m, thr) ==
    LET d == frequent_items_dict(df)
    IN  {[antecedents |-> s[1], consequents |-> s[2],
          support |-> d[s[1] \cup s[2]],
          confidence |-> Score("confidence", d[s[1] \cup s[2]], d[s[1]], d[s[2]]),
          lift |-> Score("lift", d[s[1] \cup s[2]], d[s[1]], d[s[2]])]
         : s \in {t \in Splits(df) :
                    Keep(Score(m, d[t[1] \cup t[2]], d[t[1]], d[t[2]]), thr)}}

---------------------------------------------------------------------------
(* Basket construction, lines 86-105 *)

\* The amenities field is a list of pieces of text: "," is a comma, " " a
\* run of whitespace, any other piece a word without comma or whitespace.
\* The amenity names of the enumerated rows are single words.
NoAmenities == <<"NoAmenities">>

RECURSIVE split(_)
\* str(row['amenities']).split(',')
split(s) ==
    IF \A i \in 1..Len(s) : s[i] # ","
    THEN <<s>>
    ELSE LET p == CHOOSE i \in 1..Len(s) :
                      s[i] = "," /\ \A j \in 1..(i - 1) : s[j] # ","
         IN  <<SubSeq(s, 1, p - 1)>> \o split(SubSeq(s, p + 1, Len(s)))

RECURSIVE lstrip(_)
lstrip(t) == IF t # <<>> /\ t[1] = " " THEN lstrip(Tail(t)) ELSE t

RECURSIVE rstrip(_)
rstrip(t) ==
    IF t # <<>> /\ t[Len(t)] = " " THEN rstrip(SubSeq(t, 1, Len(t) - 1)) ELSE t

\* item.strip()
strip(t) == rstrip(lstrip(t))

\* The text of a stripped, non-empty entry.
Text(t) == t[1]

\* [a for a in amenity_list if a], amenity_list the stripped entries
amenity_items(s) ==
    LET amenity_list == [i \in 1..Len(split(s)) |-> strip(split(s)[i])]
    IN  SelectSeq(amenity_list, LAMBDA a : a # <<>>)

\* Lines 88-105: the five structural labels, then the valid amenities
\* unless the field is 'NoAmenities'.
basket(row) ==
    <<row.Price_Bin, row.Size_Bin, row.Bed_Label, row.Bath_Label, row.state>>
    \o (IF row.amenities # NoAmenities
          THEN [i \in 1..Len(amenity_items(row.amenities)) |->
                    Text(amenity_items(row.amenities)[i])]
          ELSE <<>>)

---------------------------------------------------------------------------
(* Inputs *)

\* Transactions are drawn from these baskets.
Baskets ==
    << <<"A", "B", "C">>, <<"A", "B">>, <<"A", "C">>, <<"A">>, <<"B", "C">>,
       <<"B">>, <<"C">>, <<>>, <<"B", "A", "B">> >>

\* Lists of at most MaxTrans baskets, enumerated up to the order of the
\* rows (fit collects a set, transform maps row by row, apriori sums
\* columns over the rows).
Databases ==
    {s \in UNION {[1..n -> 1..Len(Baskets)] : n \in 0..MaxTrans} :
        \A i \in 1..(Len(s) - 1) : s[i] <= s[i + 1]}

\* The rows of df_assoc are drawn from these values.  A state of " " is a
\* field of the CSV that holds only whitespace.
RawAmenities ==
    { NoAmenities,
      <<"Pool">>,
      <<"Pool", ",", " ", "Pool">>,
      <<"Pool", ",", ",", " ", "Gym">>,
      <<"Gym", ",", " ">> }

RowValues ==
    [Price_Bin : {"Rent_Low", "Rent_High"}, Size_Bin : {"Size_Small"},
     Bed_Label : {"1_Beds"}, Bath_Label : {"1_Baths"},
     state : {"CA", " "}, amenities : RawAmenities]

Frames == UNION {[1..n -> RowValues] : n \in 0..MaxRows}

MinSupports == {<<1, 20>>, <<2, 5>>, <<3, 5>>, <<1, 1>>}
MinThresholds == {<<1, 2>>, <<1, 1>>, <<6, 5>>}

---------------------------------------------------------------------------
(* The script *)

NoResult == {}

InitEngine ==
    /\ rows = <<>>
    /\ index = 0
    /\ \E db \in Databases : transactions = [i \in 1..Len(db) |-> Baskets[db[i]]]
    /\ pc = "print"
    /\ err = "none"
    /\ columns_ = <<>>
    /\ te_ary = <<>>
    /\ min_support = <<0, 1>>
    /\ itemset_dict = <<>>
    /\ support_dict = <<>>
    /\ max_itemset = 0
    /\ counted = <<>>
    /\ frequent_itemsets = NoResult
    /\ metric = "none"
    /\ min_threshold = <<0, 1>>
    /\ rules = NoResult

\* Lines 107-108: print(f"Sample Transaction 0: {transactions[0]}") raises
\* IndexError on an empty list.
PrintSample_MutNoSample ==
    /\ pc = "print"
    /\ pc' = "encode"
    /\ UNCHANGED <<rows, index, transactions, err, columns_, te_ary,
                   min_support, itemset_dict, support_dict, max_itemset,
                   counted, frequent_itemsets, metric, min_threshold, rules>>

PrintSample ==
    /\ pc = "print"
    /\ IF Len(transactions) = 0
         THEN pc' = "failed" /\ err' = "IndexError"
         ELSE pc' = "encode" /\ err' = err
    /\ UNCHANGED <<rows, index, transactions, columns_, te_ary, min_support,
                   itemset_dict, support_dict, max_itemset, counted,
                   frequent_itemsets, metric, min_threshold, rules>>

\* Lines 119-121: te.fit(transactions).transform(transactions), df_onehot.
Encode ==
    /\ pc = "encode"
    /\ columns_' = fit(transactions)
    /\ te_ary' = transform(transactions, columns_')
    /\ pc' = "apriori"
    /\ UNCHANGED <<rows, index, transactions, err, min_support, itemset_dict,
                   support_dict, max_itemset, counted, frequent_itemsets,
                   metric, min_threshold, rules>>

\* Line 128, up to the while loop: the supports of all columns, level 1.
AprioriStart(ms) ==
    /\ pc = "apriori"
    /\ min_support' = ms
    /\ LET l1 == Level1(te_ary, Len(columns_), ms)
       IN  /\ itemset_dict' = (1 :> l1)
           /\ support_dict' = (1 :> [c \in l1 |-> Support(te_ary, c)])
    /\ counted' = (1 :> {<<c>> : c \in 1..Len(columns_)})
    /\ max_itemset' = 1
    /\ pc' = "loop"
    /\ UNCHANGED <<rows, index, transactions, err, columns_, te_ary,
                   frequent_itemsets, metric, min_threshold, rules>>

\* Line 128, one pass of the while loop.  The pass that breaks (no new
\* combination, or none that passes) also builds the returned frame.
AprioriLevel ==
    /\ pc = "loop"
    /\ LET next_max_itemset == max_itemset + 1
           combin == generate_new_combinations(itemset_dict[max_itemset])
           kept == {c \in combin : Mask(Support(te_ary, c), min_support)}
       IN  /\ counted' = IF combin = {} THEN counted
                         ELSE counted @@ (next_max_itemset :> combin)
           /\ IF kept # {}
                THEN /\ itemset_dict' = itemset_dict @@ (next_max_itemset :> kept)
                     /\ support_dict' = support_dict @@
                            (next_max_itemset :> [c \in kept |-> Support(te_ary, c)])
                     /\ max_itemset' = next_max_itemset
                     /\ pc' = "loop"
                     /\ frequent_itemsets' = frequent_itemsets
                ELSE /\ frequent_itemsets' =
                            ResultFrame(itemset_dict, support_dict, columns_)
                     /\ pc' = "rules"
                     /\ UNCHANGED <<itemset_dict, support_dict, max_itemset>>
    /\ UNCHANGED <<rows, index, transactions, err, columns_, te_ary,
                   min_support, metric, min_threshold, rules>>

\* Line 135: association_rules(frequent_itemsets, metric=m, min_threshold=thr).
\* An empty frame raises ValueError; a split without a stored support
\* raises KeyError.
AssociationRules(m, thr) ==
    /\ pc = "rules"
    /\ metric' = m
    /\ min_threshold' = thr
    /\ IF frequent_itemsets = {}
         THEN pc' = "failed" /\ err' = "ValueError" /\ rules' = rules
         ELSE IF MissingSupport(frequent_itemsets)
                THEN pc' = "failed" /\ err' = "KeyError" /\ rules' = rules
                ELSE /\ rules' = RuleRows(frequent_itemsets, m, thr)
                     /\ pc' = "done"
                     /\ err' = err
    /\ UNCHANGED <<rows, index, transactions, columns_, te_ary, min_support,
                   itemset_dict, support_dict, max_itemset, counted,
                   frequent_itemsets>>

Next ==
    \/ PrintSample
    \/ Encode
    \/ \E ms \in MinSupports : AprioriStart(ms)
    \/ AprioriLevel
    \/ \E m \in Metrics, thr \in MinThresholds : AssociationRules(m, thr)

Spec == InitEngine /\ [][Next]_vars

\* Lines 84-86: transactions = [] and the rows to iterate.
InitBaskets ==
    /\ rows \in Frames
    /\ index = 0
    /\ transactions = <<>>
    /\ pc = IF Len(rows) = 0 THEN "print" ELSE "build"
    /\ err = "none"
    /\ columns_ = <<>>
    /\ te_ary = <<>>
    /\ min_support = <<0, 1>>
    /\ itemset_dict = <<>>
    /\ support_dict = <<>>
    /\ max_itemset = 0
    /\ counted = <<>>
    /\ frequent_itemsets = NoResult
    /\ metric = "none"
    /\ min_threshold = <<0, 1>>
    /\ rules = NoResult

\* Lines 86-105: one pass of the for loop.
BuildBasket ==
    /\ pc = "build"
    /\ index < Len(rows)
    /\ transactions' = Append(transactions, basket(rows[index + 1]))
    /\ index' = index + 1
    /\ pc' = IF index + 1 = Len(rows) THEN "print" ELSE "build"
    /\ UNCHANGED <<rows, err, columns_, te_ary, min_support, itemset_dict,
                   support_dict, max_itemset, counted, frequent_itemsets,
                   metric, min_threshold, rules>>

NextBaskets ==
    \/ BuildBasket
    \/ PrintSample
    \/ Encode

SpecBaskets == InitBaskets /\ [][NextBaskets]_vars

FairSpec == Spec /\ WF_vars(Next)

---------------------------------------------------------------------------
(* Recomputation from the raw transactions and rows, for the properties *)

Contains(t, I) == \A l \in I : \E j \in 1..Len(t) : t[j] = l

BruteCount(I) ==
    Cardinality({r \in 1..Len(transactions) : Contains(transactions[r], I)})

BruteSupport(I) == <<BruteCount(I), Len(transactions)>>

Universe == UNION {Range(transactions[r]) : r \in 1..Len(transactions)}

BruteFrequent(ms) ==
    {I \in SUBSET Universe \ {{}} : RGeq(BruteSupport(I), ms)}

BruteLevel(k) == {I \in BruteFrequent(min_support) : Cardinality(I) = k}

BruteScore(m, A, C) ==
    CASE m = "support" -> BruteSupport(A \cup C)
      [] m = "confidence" -> RDiv(BruteSupport(A \cup C), BruteSupport(A))
      [] m = "lift" -> RDiv(RDiv(BruteSupport(A \cup C), BruteSupport(A)),
                            BruteSupport(C))

ItemsetsOf(df) == {r.itemsets : r \in df}

NamesOf(c) == {columns_[c[j]] : j \in 1..Len(c)}

\* apriori has returned (the run is at or past line 135).
Mined ==
    \/ pc \in {"rules", "done"}
    \/ pc = "failed" /\ err \in {"ValueError", "KeyError"}

\* [{A,B,C},{A,B},{A,C},{A},{B,C}]
Scenario ==
    << <<"A", "B", "C">>, <<"A", "B">>, <<"A", "C">>, <<"A">>, <<"B", "C">> >>

RuleAB(q) == q.antecedents = {"A"} /\ q.consequents = {"B"}

AllEmpty == \A r \in 1..Len(transactions) : transactions[r] = <<>>

NoMiningState ==
    /\ columns_ = <<>>
    /\ itemset_dict = <<>>
    /\ counted = <<>>
    /\ frequent_itemsets = {}
    /\ rules = {}

---------------------------------------------------------------------------
(* Properties *)

\* C1: once apriori has returned, the itemsets of the frame are exactly the
\* non-empty itemsets whose support, recounted from the raw transactions,
\* is >= min_support; each row carries that exact support and no itemset
\* has two rows; on the scenario with min_support 0.4 the frame is
\* {A}:0.8, {B}:0.6, {C}:0.6, {A,B}:0.4, {A,C}:0.4, {B,C}:0.4.
C1_ThresholdCorrectness ==
    Mined =>
      /\ ItemsetsOf(frequent_itemsets) = BruteFrequent(min_support)
      /\ \A r \in frequent_itemsets : r.support = BruteSupport(r.itemsets)
      /\ Cardinality(frequent_itemsets) = Cardinality(ItemsetsOf(frequent_itemsets))
      /\ (transactions = Scenario /\ min_support = <<2, 5>>) =>
            frequent_itemsets =
              { [itemsets |-> {"A"}, support |-> <<4, 5>>],
                [itemsets |-> {"B"}, support |-> <<3, 5>>],
                [itemsets |-> {"C"}, support |-> <<3, 5>>],
                [itemsets |-> {"A", "B"}, support |-> <<2, 5>>],
                [itemsets |-> {"A", "C"}, support |-> <<2, 5>>],
                [itemsets |-> {"B", "C"}, support |-> <<2, 5>>] }

C1_Witness ==
    /\ Mined
    /\ transactions = Scenario
    /\ min_support = <<2, 5>>
    /\ Cardinality(frequent_itemsets) = 6

\* C2: every rule of the returned frame has a non-empty antecedent and a
\* non-empty consequent that are disjoint, their union is an itemset of
\* the frequent-itemset frame, and its support, confidence and lift equal
\* the values recomputed from the raw transactions.
C2_RuleValidity ==
    pc = "done" =>
      \A q \in rules :
        LET A == q.antecedents
            C == q.consequents
        IN  /\ A # {} /\ C # {} /\ A \cap C = {}
            /\ (A \cup C) \in ItemsetsOf(frequent_itemsets)
            /\ q.support[2] > 0 /\ q.confidence[2] > 0 /\ q.lift[2] > 0
            /\ REq(q.support, BruteScore("support", A, C))
            /\ REq(q.confidence, BruteScore("confidence", A, C))
            /\ REq(q.lift, BruteScore("lift", A, C))

C2_Witness ==
    /\ pc = "done"
    /\ \E q \in rules : /\ Cardinality(q.antecedents) = 2
                        /\ ~REq(q.lift, q.confidence)
                        /\ ~REq(q.lift, <<1, 1>>)

\* C3: the rules returned are exactly the splits (A, I \ A), I a frequent
\* itemset with at least two items and A a non-empty proper subset of I,
\* whose selected metric (recomputed from the raw transactions) is >=
\* min_threshold, one row per split; on the scenario with min_support 0.4
\* the rule A -> B has confidence 0.5 and lift 5/6 < 1, is kept by
\* confidence >= 0.5 and dropped by lift >= 1.0 and by lift >= 1.2.
C3_RuleCompleteness ==
    pc = "done" =>
      /\ {<<q.antecedents, q.consequents>> : q \in rules} =
            UNION {{<<A, I \ A>> : A \in {B \in SUBSET I \ {{}, I} :
                        RGeq(BruteScore(metric, B, I \ B), min_threshold)}}
                   : I \in {J \in ItemsetsOf(frequent_itemsets) : Cardinality(J) >= 2}}
      /\ Cardinality(rules) =
            Cardinality({<<q.antecedents, q.consequents>> : q \in rules})
      /\ (transactions = Scenario /\ min_support = <<2, 5>>) =>
            /\ (metric = "confidence" /\ min_threshold = <<1, 2>>) =>
                  \E q \in rules : /\ RuleAB(q)
                                   /\ REq(q.confidence, <<1, 2>>)
                                   /\ REq(q.lift, <<5, 6>>)
            /\ (metric = "lift" /\ RGeq(min_threshold, <<1, 1>>)) =>
                  ~ \E q \in rules : RuleAB(q)

C3_Witness ==
    /\ pc = "done"
    /\ transactions = Scenario
    /\ min_support = <<2, 5>>
    /\ metric = "lift"
    /\ min_threshold = <<1, 1>>
    /\ rules # {}
    /\ ~ \E q \in rules : RuleAB(q)

C5_Original ==
    (Mined /\ min_support = <<1, 1>> /\ transactions = Scenario) =>
        ItemsetsOf(frequent_itemsets) = {{"A"}}

\* C5 (amended): with min_support 1.0 the frame holds exactly the non-empty
\* itemsets contained in every transaction, and apriori returns it (empty
\* when there is none) without raising; on the scenario the frame is empty,
\* A being in 4 of the 5 transactions.
C5_FullSupport ==
    (Mined /\ min_support = <<1, 1>>) =>
      /\ ItemsetsOf(frequent_itemsets) =
            {I \in SUBSET Universe \ {{}} :
                \A r \in 1..Len(transactions) : Contains(transactions[r], I)}
      /\ pc = "rules" => err = "none"
      /\ transactions = Scenario =>
            (frequent_itemsets = {} /\ BruteCount({"A"}) = 4)

C5_Witness ==
    /\ pc = "rules"
    /\ min_support = <<1, 1>>
    /\ transactions = Scenario
    /\ frequent_itemsets = {}
    /\ err = "none"

\* C6: for the same one-hot frame, a min_support at least as large returns
\* at most as many itemsets (and one at most as large at least as many);
\* for the same frequent-itemset frame and metric, a min_threshold at least
\* as large returns at most as many rules (and one at most as large at
\* least as many).
C6_MonotoneThresholds ==
    /\ pc = "rules" =>
          \A ms \in MinSupports :
            LET n == Cardinality(AprioriItemsets(te_ary, columns_, ms))
            IN  /\ RGeq(ms, min_support) => n <= Cardinality(frequent_itemsets)
                /\ RGeq(min_support, ms) => n >= Cardinality(frequent_itemsets)
    /\ pc = "done" =>
          \A thr \in MinThresholds :
            LET n == Cardinality(RuleRows(frequent_itemsets, metric, thr))
            IN  /\ RGeq(thr, min_threshold) => n <= Cardinality(rules)
                /\ RGeq(min_threshold, thr) => n >= Cardinality(rules)

C6_Witness ==
    /\ pc = "done"
    /\ \E ms \in MinSupports :
          /\ RGeq(ms, min_support)
          /\ Cardinality(AprioriItemsets(te_ary, columns_, ms))
                < Cardinality(frequent_itemsets)
    /\ \E thr \in MinThresholds :
          /\ RGeq(thr, min_threshold)
          /\ Cardinality(RuleRows(frequent_itemsets, metric, thr)) < Cardinality(rules)
          /\ RuleRows(frequent_itemsets, metric, thr) # {}

\* The labels of a row: its five structural labels as they are, and the
\* words of its amenities field unless the field is 'NoAmenities'.
RowLabels(row) ==
    {row.Price_Bin, row.Size_Bin, row.Bed_Label, row.Bath_Label, row.state}
    \cup (IF row.amenities = NoAmenities THEN {}
          ELSE Range(row.amenities) \ {",", " "})

Blank(l) == l \in {"", " "}

Encoded == pc = "apriori"

OnesOf(r) == {columns_[c] : c \in {d \in 1..Len(columns_) : te_ary[r][d]}}

\* C7 (as claimed): after encoding, the columns are exactly the distinct
\* non-blank labels of the rows and each encoded row holds exactly the
\* distinct non-blank labels of its row.
C7_Original ==
    Encoded =>
      /\ Range(columns_) =
            {l \in UNION {RowLabels(rows[r]) : r \in 1..Len(rows)} : ~Blank(l)}
      /\ Len(columns_) = Cardinality(Range(columns_))
      /\ Len(te_ary) = Len(rows)
      /\ \A r \in 1..Len(rows) :
            OnesOf(r) = {l \in RowLabels(rows[r]) : ~Blank(l)}

\* C7 (amended): after encoding, the columns are the distinct labels of the
\* rows in ascending order, without repetition, where the labels of a row
\* are its five structural labels as they stand (blank or not) and its
\* non-blank amenity entries, stripped; each encoded row holds exactly the
\* labels of its row, a repeated label once.
C7_SetSemantics ==
    Encoded =>
      /\ Range(columns_) = UNION {RowLabels(rows[r]) : r \in 1..Len(rows)}
      /\ Len(columns_) = Cardinality(Range(columns_))
      /\ \A i, j \in 1..Len(columns_) :
            i < j => Rank(columns_[i]) < Rank(columns_[j])
      /\ Len(te_ary) = Len(rows)
      /\ \A r \in 1..Len(rows) : OnesOf(r) = RowLabels(rows[r])
      /\ \A r \in 1..Len(rows) :
            \A j \in 6..Len(transactions[r]) : ~Blank(transactions[r][j])

C7_Witness ==
    /\ Encoded
    /\ \E r \in 1..Len(rows) :
          /\ rows[r].amenities = <<"Pool", ",", " ", "Pool">>
          /\ Len(transactions[r]) > Cardinality(OnesOf(r))
    /\ \E r \in 1..Len(rows) :
          /\ rows[r].amenities = <<"Gym", ",", " ">>
          /\ rows[r].state = "CA"
          /\ ~ \E l \in OnesOf(r) : Blank(l)

Drop(c, j) == SubSeq(c, 1, j - 1) \o SubSeq(c, j + 1, Len(c))

LevelComplete(k) ==
    /\ k \in DOMAIN itemset_dict
    /\ {NamesOf(c) : c \in itemset_dict[k]} = BruteLevel(k)

StopLevel == IF itemset_dict[1] = {} THEN 1 ELSE max_itemset + 1

Terminated == pc \in {"done", "failed"}

\* Supports are counted at no level above (number of columns + 1); the
\* loop goes on only from a non-empty level; when apriori has returned,
\* the first level k with no frequent itemset is at most (number of
\* columns + 1), every level below k is non-empty and complete, and the
\* frame is the union of the levels below k; with no column the frame is
\* empty, only level 1 was counted and apriori did not raise; a run that
\* has not ended can take its next step.
LevelsBounded ==
    /\ \A k \in DOMAIN counted : k <= Len(columns_) + 1
    /\ pc = "loop" =>
          /\ DOMAIN itemset_dict = 1..max_itemset
          /\ \A k \in 2..max_itemset : itemset_dict[k] # {}
    /\ Mined =>
          /\ StopLevel <= Len(columns_) + 1
          /\ BruteLevel(StopLevel) = {}
          /\ \A j \in 1..(StopLevel - 1) :
                itemset_dict[j] # {} /\ LevelComplete(j)
          /\ ItemsetsOf(frequent_itemsets) =
                UNION {{NamesOf(c) : c \in itemset_dict[j]}
                         : j \in 1..(StopLevel - 1)}
          /\ Len(columns_) = 0 =>
                /\ frequent_itemsets = {}
                /\ DOMAIN counted = {1}
                /\ pc = "rules" => err = "none"
    /\ ~Terminated => ENABLED Next

\* C9: the level-wise search always terminates: every run ends, the search
\* stops at the first level whose frequent set is empty, after at most
\* (number of columns + 1) levels, with the union of the levels below it
\* as its result; with no column it ends at once with the empty frame and
\* without raising.
C9_Terminates == []LevelsBounded /\ <>Terminated

C9_Witness ==
    /\ pc = "rules"
    /\ Len(columns_) = 3
    /\ StopLevel = 4
    /\ 4 \notin DOMAIN counted

\* C10: once apriori has returned, every non-empty subset S of a returned
\* itemset I is returned too, with support(S) >= support(I) > 0; so at the
\* call of association_rules every split finds both supports stored, no
\* KeyError is raised and no quotient has a zero denominator.
C10_DownwardClosed ==
    /\ Mined =>
          \A r \in frequent_itemsets :
            \A S \in SUBSET r.itemsets \ {{}} :
              \E q \in frequent_itemsets :
                /\ q.itemsets = S
                /\ RGeq(q.support, r.support)
                /\ r.support[1] > 0
                /\ q.support[2] > 0
    /\ pc = "rules" => ~MissingSupport(frequent_itemsets)
    /\ err # "KeyError"
    /\ pc = "done" =>
          \A q \in rules : q.confidence[2] > 0 /\ q.lift[2] > 0

C10_Witness ==
    /\ pc = "done"
    /\ \E r \in frequent_itemsets : Cardinality(r.itemsets) = 3
    /\ \E q \in rules : Cardinality(q.consequents) = 2

===========================================================================
